---- MODULE Spec2Model ----
(***************************************************************************)
(* A model of AI_dashboard.py: one run of the script, from the file       *)
(* upload widget to the rendered charts and summary.                      *)
(*                                                                         *)
(* Text is modelled as sequences of code points, files as sequences of    *)
(* bytes, and numbers as integers counting tenths (2.5 is 25), so that    *)
(* decoding, CSV parsing, column-name stripping and numeric coercion are  *)
(* computed rather than assumed.                                           *)
(***************************************************************************)
EXTENDS Integers, Sequences, FiniteSets, TLC

\* ---------------------------------------------------------------- bounds

\* Longest list of data rows enumerated for an uploaded file.
MaxRows == 2

\* Bytes a text stream takes from the underlying binary stream per read
\* (io.DEFAULT_BUFFER_SIZE in CPython, scaled down to the size of the
\* files enumerated here).
ChunkSize == 16

\* ------------------------------------------------------------- sequences

Min(a, b) == IF a < b THEN a ELSE b

Range(s) == {s[i] : i \in DOMAIN s}

RECURSIVE SeqSum(_)
SeqSum(s) == IF s = <<>> THEN 0 ELSE Head(s) + SeqSum(Tail(s))

RECURSIVE Flatten(_)
Flatten(ss) == IF ss = <<>> THEN <<>> ELSE Head(ss) \o Flatten(Tail(ss))

\* The sequences over S of length at most n.
SeqsUpTo(S, n) == UNION {[1..k -> S] : k \in 0..n}

\* s split at every occurrence of sep (str.split / the tokenizer's field
\* and line separation): always at least one piece.
RECURSIVE Split(_, _)
Split(s, sep) ==
    IF \A i \in DOMAIN s : s[i] # sep THEN <<s>>
    ELSE LET k == CHOOSE i \in DOMAIN s :
                      s[i] = sep /\ \A j \in 1..(i - 1) : s[j] # sep
         IN  <<SubSeq(s, 1, k - 1)>> \o Split(SubSeq(s, k + 1, Len(s)), sep)

\* ------------------------------------------------------------- encodings

IsCont(b) == b >= 128 /\ b <= 191

\* The UTF-8 decoder on a byte sequence, from byte i on, acc the text so
\* far.  ok: the bytes decode; text: the code points; at: on failure, the
\* number of bytes the decoder had to see to raise UnicodeDecodeError (the
\* offending byte, or the end of the data for a truncated sequence).
\* Bytes 240..244 (four-byte sequences) are not in the alphabet of the
\* enumerated files and are reported as invalid start bytes.
RECURSIVE utf8_from(_, _, _)
utf8_from(bytes, i, acc) ==
    IF i > Len(bytes) THEN [ok |-> TRUE, text |-> acc, at |-> 0]
    ELSE LET b == bytes[i]
             n == Len(bytes)
             bad(k) == [ok |-> FALSE, text |-> acc, at |-> Min(k, n)]
         IN  IF b < 128 THEN utf8_from(bytes, i + 1, Append(acc, b))
             ELSE IF b >= 194 /\ b <= 223 THEN
                 IF i + 1 > n \/ ~IsCont(bytes[i + 1]) THEN bad(i + 1)
                 ELSE utf8_from(bytes, i + 2,
                          Append(acc, (b - 192) * 64 + (bytes[i + 1] - 128)))
             ELSE IF b >= 224 /\ b <= 239 THEN
                 IF i + 1 > n \/ ~IsCont(bytes[i + 1]) THEN bad(i + 1)
                 ELSE IF i + 2 > n \/ ~IsCont(bytes[i + 2]) THEN bad(i + 2)
                 ELSE utf8_from(bytes, i + 3,
                          Append(acc, (b - 224) * 4096
                                      + (bytes[i + 1] - 128) * 64
                                      + (bytes[i + 2] - 128)))
             ELSE bad(i)

\* ISO-8859-1: every byte b is the code point U+00b, so it never fails.
latin1_decode(bytes) ==
    [ok |-> TRUE, text |-> [i \in DOMAIN bytes |-> bytes[i]], at |-> 0]

decode(bytes, encoding) ==
    IF encoding = "utf-8" THEN utf8_from(bytes, 1, <<>>)
    ELSE latin1_decode(bytes)

\* ---------------------------------------------------------------- tables

\* A cell: text as parsed ("str"), a number in tenths ("num"), or the
\* missing marker ("nan").
Str(s) == [k |-> "str", s |-> s, v |-> 0]
Num(v) == [k |-> "num", s |-> <<>>, v |-> v]
NaN == [k |-> "nan", s |-> <<>>, v |-> 0]

\* A row label: a position of the default RangeIndex, or the text of the
\* first field when the parser takes it for the index.
RangeLabel(i) == [rng |-> TRUE, i |-> i, key |-> <<>>]
KeyLabel(s) == [rng |-> FALSE, i |-> 0, key |-> s]

Month == <<77, 111, 110, 116, 104>>                 \* 'Month'
Sales == <<83, 97, 108, 101, 115>>                  \* 'Sales'
Unnamed == <<85, 110, 110, 97, 109, 101, 100, 58, 32>>  \* 'Unnamed: '

\* One decimal digit as text (names are only built with k < 10 here).
Digit(k) == <<48 + k>>

\* Header names as pandas makes them: an empty name becomes 'Unnamed: i'
\* (i from 0), and the k-th repeat of a name gets '.k' appended.
MangleNames(fields) ==
    LET named == [i \in DOMAIN fields |->
                     IF fields[i] = <<>> THEN Unnamed \o Digit(i - 1)
                     ELSE fields[i]]
        seen(i) == Cardinality({j \in 1..(i - 1) : named[j] = named[i]})
    IN  [i \in DOMAIN named |->
            IF seen(i) = 0 THEN named[i]
            ELSE named[i] \o <<46>> \o Digit(seen(i))]

NotBlank(line) == line # <<>>

\* pandas.read_csv on decoded text (lines end in byte 10, fields are
\* separated by byte 44): the header is the first non-blank
\* line; a first data row with one field more than the header makes the
\* first field the index; short rows are padded with the missing marker;
\* a longer row is a ParserError; no line at all is an EmptyDataError.
\* An empty field is read as the missing marker.
parse_csv(text) ==
    LET lines == SelectSeq(Split(text, 10), NotBlank)
    IN  IF lines = <<>>
        THEN [exc |-> "EmptyDataError", columns |-> <<>>, rows |-> <<>>]
        ELSE
        LET names == MangleNames(Split(Head(lines), 44))
            body == [i \in 1..(Len(lines) - 1) |-> Split(lines[i + 1], 44)]
            ncols == Len(names)
            implicit == body # <<>> /\ Len(body[1]) = ncols + 1
            width == IF implicit THEN ncols + 1 ELSE ncols
            off == IF implicit THEN 1 ELSE 0
            cell(f) == IF f = <<>> THEN NaN ELSE Str(f)
            row(i) ==
                [idx |-> IF implicit THEN KeyLabel(body[i][1])
                         ELSE RangeLabel(i - 1),
                 cells |-> [c \in 1..ncols |->
                               IF c + off <= Len(body[i])
                               THEN cell(body[i][c + off]) ELSE NaN]]
        IN  IF \E i \in DOMAIN body : Len(body[i]) > width
            THEN [exc |-> "ParserError", columns |-> <<>>, rows |-> <<>>]
            ELSE [exc |-> "none", columns |-> names,
                  rows |-> [i \in DOMAIN body |-> row(i)]]

NoTable == [columns |-> <<>>, rows |-> <<>>]

\* What str.strip() removes from both ends.
IsSpace(c) == c \in {9, 10, 11, 12, 13, 28, 29, 30, 31, 32, 133, 160}

\* strip as str.lstrip() would do it: only the leading whitespace goes.
strip_leading_only(s) ==
    LET keep == {i \in DOMAIN s : ~IsSpace(s[i])}
    IN  IF keep = {} THEN <<>>
        ELSE SubSeq(s, CHOOSE i \in keep : \A j \in keep : i <= j, Len(s))

\* str.strip(): s without its leading and trailing whitespace.
strip(s) ==
    LET keep == {i \in DOMAIN s : ~IsSpace(s[i])}
    IN  IF keep = {} THEN <<>>
        ELSE LET lo == CHOOSE i \in keep : \A j \in keep : i <= j
                 hi == CHOOSE i \in keep : \A j \in keep : j <= i
             IN  SubSeq(s, lo, hi)

\* df.columns.str.strip()
strip_columns(table) ==
    [table EXCEPT !.columns = [i \in DOMAIN table.columns |->
                                  strip(table.columns[i])]]

\* name in df.columns
HasColumn(table, name) == \E i \in DOMAIN table.columns : table.columns[i] = name

\* The positions of the columns called name, in column order.
ColumnsNamed(table, name) ==
    SelectSeq([i \in DOMAIN table.columns |-> i],
              LAMBDA i : table.columns[i] = name)

\* df[names] with names a list: for each requested name in turn, every
\* column of that name (a repeated name selects all its columns).
select_columns(table, names) ==
    LET take == Flatten([n \in DOMAIN names |-> ColumnsNamed(table, names[n])])
    IN  [columns |-> [c \in DOMAIN take |-> table.columns[take[c]]],
         rows |-> [r \in DOMAIN table.rows |->
                      [idx |-> table.rows[r].idx,
                       cells |-> [c \in DOMAIN take |->
                                     table.rows[r].cells[take[c]]]]]]

\* ---------------------------------------------------------------- numbers

IsDigit(c) == c >= 48 /\ c <= 57

RECURSIVE DigitsValue(_)
DigitsValue(ds) ==
    IF ds = <<>> THEN 0
    ELSE 10 * DigitsValue(SubSeq(ds, 1, Len(ds) - 1)) + (ds[Len(ds)] - 48)

\* The text of a decimal number as a number of tenths, or the missing
\* marker when the text is no number: an optional sign, digits, an optional
\* point and digits, at least one digit in all.  The enumerated files hold
\* at most one digit after the point; further digits would be cut off.
parse_number(s) ==
    LET signed == s # <<>> /\ s[1] \in {43, 45}
        body == IF signed THEN Tail(s) ELSE s
        parts == Split(body, 46)
        ip == parts[1]
        fp == IF Len(parts) > 1 THEN parts[2] ELSE <<>>
        wellformed == /\ Len(parts) <= 2
                      /\ Len(ip) + Len(fp) >= 1
                      /\ \A i \in DOMAIN ip : IsDigit(ip[i])
                      /\ \A i \in DOMAIN fp : IsDigit(fp[i])
        mag == 10 * DigitsValue(ip) + (IF fp = <<>> THEN 0 ELSE fp[1] - 48)
    IN  IF ~wellformed THEN NaN
        ELSE Num(IF signed /\ s[1] = 45 THEN 0 - mag ELSE mag)

\* to_numeric that converts text only and takes a number for unconvertible.
to_numeric_text_only(cell) ==
    IF cell.k = "str" THEN parse_number(cell.s) ELSE NaN

\* pd.to_numeric(..., errors='coerce') on one cell: a number stays, text
\* that is a number is converted, anything else is the missing marker.
to_numeric(cell) ==
    IF cell.k = "num" THEN cell
    ELSE IF cell.k = "str" THEN parse_number(cell.s)
    ELSE NaN

\* df[name] = pd.to_numeric(df[name], errors='coerce'), name a single
\* column of the table.
coerce_column(table, name) ==
    [table EXCEPT !.rows = [r \in DOMAIN table.rows |->
        [table.rows[r] EXCEPT !.cells = [c \in DOMAIN table.columns |->
            IF table.columns[c] = name THEN to_numeric(table.rows[r].cells[c])
            ELSE table.rows[r].cells[c]]]]]

\* df.dropna(): the rows without a missing marker, order and labels kept.
dropna(table) ==
    [table EXCEPT !.rows =
        SelectSeq(table.rows,
                  LAMBDA row : \A c \in DOMAIN row.cells : row.cells[c].k # "nan")]

\* The Cleaner.  pd.to_numeric takes a single column: when the stripped
\* header holds a required name twice, df[name] is a table and to_numeric
\* raises TypeError.
Cleaner(table) ==
    LET picked == select_columns(table, <<Month, Sales>>)
    IN  IF Len(ColumnsNamed(picked, Month)) # 1 \/ Len(ColumnsNamed(picked, Sales)) # 1
        THEN [exc |-> "TypeError", df |-> picked]
        ELSE [exc |-> "none",
              df |-> dropna(coerce_column(coerce_column(picked, Month), Sales))]

\* The values of one column of a cleaned table, in row order.
Column(table, name) ==
    LET c == CHOOSE i \in DOMAIN table.columns : table.columns[i] = name
    IN  [r \in DOMAIN table.rows |-> table.rows[r].cells[c].v]

\* -------------------------------------------------------------- fractions

Abs(a) == IF a < 0 THEN 0 - a ELSE a

RECURSIVE GCD(_, _)
GCD(a, b) == IF b = 0 THEN a ELSE GCD(b, a % b)

\* The fraction n/d in lowest terms with a positive denominator (d # 0).
Frac(n, d) ==
    LET g == GCD(Abs(n), Abs(d))
        sgn == IF d < 0 THEN 0 - 1 ELSE 1
    IN  [num |-> sgn * (n \div g), den |-> sgn * (d \div g)]

FracAdd(a, b) == Frac(a.num * b.den + b.num * a.den, a.den * b.den)
FracMul(a, b) == Frac(a.num * b.num, a.den * b.den)

\* Series.mean() of a non-empty sequence of numbers.
Mean(values) == Frac(SeqSum(values), Len(values))

\* ------------------------------------------------------------- regression

\* LinearRegression().fit(x, y) on at least one sample: the least-squares
\* line y = coef * x + intercept; when all x are equal the minimum-norm
\* solution has coef 0 and the mean of y as intercept.
fit(xs, ys) ==
    LET n == Len(xs)
        sx == SeqSum(xs)
        sy == SeqSum(ys)
        sxx == SeqSum([i \in DOMAIN xs |-> xs[i] * xs[i]])
        sxy == SeqSum([i \in DOMAIN xs |-> xs[i] * ys[i]])
        d == n * sxx - sx * sx
        coef == IF d = 0 THEN Frac(0, 1) ELSE Frac(n * sxy - sx * sy, d)
    IN  [coef |-> coef,
         intercept |-> FracMul(FracAdd(Frac(sy, 1), FracMul(coef, Frac(0 - sx, 1))),
                               Frac(1, n))]

\* model.predict at x.
predict(m, x) == FracAdd(m.intercept, FracMul(m.coef, Frac(x, 1)))

\* int(v) for v in tenths: Python's int() cuts towards zero.
int(v) == IF v >= 0 THEN v \div 10 ELSE 0 - ((0 - v) \div 10)

\* The largest element of a non-empty sequence (Series.max()).
Max(values) == CHOOSE v \in Range(values) : \A w \in Range(values) : w <= v

\* range(int(max) + 1, int(max) + 7) as the Month column of future_months
\* (whole months, kept in tenths like every number here), and the
\* model's prediction for each.
forecast(m, months) ==
    LET first == int(Max(months)) + 1
    IN  [i \in 1..6 |->
            [Month |-> 10 * (first + i - 1),
             Forecast |-> predict(m, 10 * (first + i - 1))]]

\* ------------------------------------------------------------ aggregation

\* The distinct values of a sequence in ascending order (groupby sorts
\* its keys).
RECURSIVE SortedKeys(_)
SortedKeys(S) ==
    IF S = {} THEN <<>>
    ELSE LET lo == CHOOSE v \in S : \A w \in S : v <= w
         IN  <<lo>> \o SortedKeys(S \ {lo})

\* records.groupby('Month')['Sales'].mean().reset_index(): one entry per
\* distinct Month, ascending, with the mean Sales of its records.
groupby_mean(records) ==
    LET keys == SortedKeys({records[i].Month : i \in DOMAIN records})
        of(m) == SelectSeq(records, LAMBDA r : r.Month = m)
    IN  [k \in DOMAIN keys |->
            [Month |-> keys[k],
             Sales |-> Mean([j \in DOMAIN of(keys[k]) |-> of(keys[k])[j].Sales])]]

\* The selection with the label of the normal records, 1, for -1.
flagged_normal(records) == SelectSeq(records, LAMBDA r : r.anomaly = 1)

\* df[df['anomaly'] == -1]: the records labelled anomalous, order kept.
flagged(records) == SelectSeq(records, LAMBDA r : r.anomaly = 0 - 1)

\* idxmax taking the last row that holds the maximum.
idxmax_last(records) ==
    LET top == Max([i \in DOMAIN records |-> records[i].Sales])
        at == CHOOSE i \in DOMAIN records :
                  /\ records[i].Sales = top
                  /\ \A j \in (i + 1)..Len(records) : records[j].Sales # top
    IN  records[at].idx

\* Series.idxmax(): the label of the first row holding the maximum.
idxmax(records) ==
    LET top == Max([i \in DOMAIN records |-> records[i].Sales])
        at == CHOOSE i \in DOMAIN records :
                  /\ records[i].Sales = top
                  /\ \A j \in 1..(i - 1) : records[j].Sales # top
    IN  records[at].idx

\* ----------------------------------------------------------------- inputs

\* Header lines of the enumerated files.
Headers ==
    { <<77, 111, 110, 116, 104, 44, 83, 97, 108, 101, 115>>,            \* 'Month,Sales'
      <<109, 111, 110, 116, 104, 44, 115, 97, 108, 101, 115>>,          \* 'month,sales'
      <<32, 77, 111, 110, 116, 104, 32, 44, 83, 97, 108, 101, 115, 32>>, \* ' Month ,Sales '
      <<77, 111, 110, 116, 104, 44, 81, 116, 121>>,                     \* 'Month,Qty'
      <<81, 116, 121, 44, 83, 97, 108, 101, 115>>,                      \* 'Qty,Sales'
      <<83, 97, 108, 101, 115, 44, 77, 111, 110, 116, 104>>,            \* 'Sales,Month'
      <<77, 111, 110, 116, 104, 44, 83, 97, 108, 101, 115, 44, 81, 116, 121>>, \* 'Month,Sales,Qty'
      <<77, 111, 110, 116, 104, 44, 32, 77, 111, 110, 116, 104, 44, 83, 97, 108, 101, 115>> } \* 'Month, Month,Sales'

PlainHeader == <<77, 111, 110, 116, 104, 44, 83, 97, 108, 101, 115>>   \* 'Month,Sales'

\* Data lines of the enumerated files.
RowLines ==
    { <<49, 44, 49, 48, 48>>,        \* '1,100'
      <<50, 44, 49, 48, 48>>,        \* '2,100'   the same Sales in another Month
      <<49, 44, 49, 48, 48, 48>>,    \* '1,1000'  another Sales in the same Month
      <<50, 44, 120>>,               \* '2,x'     Sales is no number
      <<120, 44, 53>>,               \* 'x,5'     Month is no number
      <<44, 52>>,                    \* ',4'      Month is missing
      <<45, 50, 46, 53, 44, 55>>,    \* '-2.5,7'  a negative fractional Month
      <<50, 46, 53, 44, 57, 48>>,    \* '2.5,90'  a fractional Month
      <<49, 44, 233>>,               \* '1,<E9>'  Latin-1 text, not valid UTF-8
      <<49, 44, 195, 169>> }         \* '1,<C3 A9>' the same text in UTF-8

\* The six rows of the end-to-end scenario.
ScenarioRows ==
    << <<49, 44, 49, 48, 48>>,       \* '1,100'
       <<50, 44, 49, 49, 48>>,       \* '2,110'
       <<51, 44, 57, 48>>,           \* '3,90'
       <<52, 44, 49, 48, 48, 48>>,   \* '4,1000'
       <<53, 44, 49, 48, 53>>,       \* '5,105'
       <<54, 44, 57, 53>> >>         \* '6,95'

\* The bytes of a CSV file: the header line and the data lines, each ended
\* by a newline.
FileBytes(header, rows) ==
    header \o <<10>> \o Flatten([i \in DOMAIN rows |-> rows[i] \o <<10>>])

\* The uploaded files a run is tried on: the plain header over every list
\* of at most MaxRows data lines, every header over every list of at most
\* one data line, and the scenario.
Files ==
    {FileBytes(PlainHeader, rows) : rows \in SeqsUpTo(RowLines, MaxRows)}
    \cup {FileBytes(h, rows) : h \in Headers, rows \in SeqsUpTo(RowLines, 1)}
    \cup {FileBytes(PlainHeader, ScenarioRows)}

\* st.sidebar.file_uploader: None, or the uploaded file as a binary stream
\* at position 0.
NoUpload == [present |-> FALSE, bytes |-> <<>>, pos |-> 0]
Upload(bytes) == [present |-> TRUE, bytes |-> bytes, pos |-> 0]

\* ---------------------------------------------------------------- loading

\* pd.read_csv(file, encoding=...).  A path is opened first, and the empty
\* path names no file.  A stream is read from its current position, a
\* chunk at a time, decoding as it goes: a decoding error leaves the stream
\* after the chunk that held the error, any other outcome at its end.
read_csv(file, encoding) ==
    IF ~file.present
    THEN [exc |-> "FileNotFoundError", table |-> NoTable, pos |-> file.pos]
    ELSE
    LET rest == SubSeq(file.bytes, file.pos + 1, Len(file.bytes))
        d == decode(rest, encoding)
    IN  IF ~d.ok
        THEN [exc |-> "UnicodeDecodeError", table |-> NoTable,
              pos |-> file.pos
                      + Min(Len(rest),
                            ChunkSize * ((d.at + ChunkSize - 1) \div ChunkSize))]
        ELSE LET t == parse_csv(d.text)
             IN  [exc |-> t.exc,
                  table |-> [columns |-> t.columns, rows |-> t.rows],
                  pos |-> Len(file.bytes)]

\* read_csv_auto: UTF-8 first; on UnicodeDecodeError the same file object
\* is handed to read_csv again, as ISO-8859-1.
read_csv_auto(file) ==
    LET first == read_csv(file, "utf-8")
    IN  IF first.exc = "UnicodeDecodeError"
        THEN read_csv([file EXCEPT !.pos = first.pos], "ISO-8859-1")
        ELSE first

\* ------------------------------------------------------------------ state

VARIABLES
    uploaded_file,      \* the upload widget's value, with the stream position
    pc,                 \* the statement group the script runs next
    df,                 \* the table df
    anomaly,            \* the column df['anomaly'], one label per row of df
    model,              \* the fitted LinearRegression
    future_months,      \* the forecast table
    anomalies,          \* the rows of df labelled -1
    monthly_avg,        \* mean Sales per Month over df
    monthly_anomalies,  \* mean Sales per Month over anomalies
    fig,                \* the historical chart
    forecast_fig,       \* the forecast chart
    summary,            \* total_sales, avg_sales, peak_month, anomaly_count
    shown,              \* what the page shows, in the order it was emitted
    exc                 \* the exception that ended the script, or "none"

vars == <<uploaded_file, pc, df, anomaly, model, future_months, anomalies,
          monthly_avg, monthly_anomalies, fig, forecast_fig, summary, shown, exc>>

Zero == Frac(0, 1)
NoModel == [coef |-> Zero, intercept |-> Zero]
NoFig == [drawn |-> FALSE, line |-> <<>>, markers |-> <<>>]
NoSummary == [total_sales |-> 0, avg_sales |-> Zero, peak_month |-> 0,
              shown_peak |-> 0, anomaly_count |-> 0]

Element(kind, text) == [kind |-> kind, text |-> text]

\* The rows of the cleaned df as records, with their labels and, once the
\* detector has run, their anomaly label (0 before).
Records(table, labels) ==
    LET months == Column(table, Month)
        sales == Column(table, Sales)
    IN  [r \in DOMAIN table.rows |->
            [idx |-> table.rows[r].idx, Month |-> months[r], Sales |-> sales[r],
             anomaly |-> IF r \in DOMAIN labels THEN labels[r] ELSE 0]]

Init ==
    /\ uploaded_file \in {NoUpload} \cup {Upload(b) : b \in Files}
    /\ pc = "load"
    /\ df = NoTable
    /\ anomaly = <<>>
    /\ model = NoModel
    /\ future_months = <<>>
    /\ anomalies = <<>>
    /\ monthly_avg = <<>>
    /\ monthly_anomalies = <<>>
    /\ fig = NoFig
    /\ forecast_fig = NoFig
    /\ summary = NoSummary
    /\ shown = <<>>
    /\ exc = "none"

\* Lines 22-28 and 36-38: read the upload, or the empty path when there is
\* none; any exception is shown as an error and the script stops.
Load ==
    /\ pc = "load"
    /\ LET r == read_csv_auto(uploaded_file)
           before == IF uploaded_file.present THEN <<>>
                     ELSE <<Element("sidebar.info", "Using default sample sales data")>>
       IN  /\ uploaded_file' = [uploaded_file EXCEPT !.pos = r.pos]
           /\ IF r.exc # "none"
              THEN /\ shown' = shown \o before
                                 \o <<Element("error", "Error reading the CSV file")>>
                   /\ pc' = "stopped"
                   /\ df' = df
              ELSE /\ shown' = shown \o before
                                 \o (IF uploaded_file.present
                                     THEN <<Element("sidebar.success", "File uploaded successfully")>>
                                     ELSE <<>>)
                   /\ pc' = "strip"
                   /\ df' = r.table
    /\ UNCHANGED <<anomaly, model, future_months, anomalies, monthly_avg,
                   monthly_anomalies, fig, forecast_fig, summary, exc>>

\* Lines 30-34: strip the column names and list them.
StripColumns ==
    /\ pc = "strip"
    /\ df' = strip_columns(df)
    /\ shown' = Append(shown, Element("write", "Columns in your file"))
    /\ pc' = "validate"
    /\ UNCHANGED <<uploaded_file, anomaly, model, future_months, anomalies,
                   monthly_avg, monthly_anomalies, fig, forecast_fig, summary, exc>>

\* Lines 41-43: the schema check.
Validate ==
    /\ pc = "validate"
    /\ IF ~HasColumn(df, Month) \/ ~HasColumn(df, Sales)
       THEN /\ shown' = Append(shown,
                   Element("error", "CSV must have 'Month' and 'Sales' columns (case-sensitive)"))
            /\ pc' = "stopped"
       ELSE /\ shown' = shown
            /\ pc' = "clean"
    /\ UNCHANGED <<uploaded_file, df, anomaly, model, future_months, anomalies,
                   monthly_avg, monthly_anomalies, fig, forecast_fig, summary, exc>>

\* Lines 45-48: the Cleaner.  An exception here is caught by nothing.
Clean ==
    /\ pc = "clean"
    /\ LET r == Cleaner(df)
       IN  /\ df' = r.df
           /\ exc' = r.exc
           /\ pc' = IF r.exc = "none" THEN "fit" ELSE "crashed"
    /\ UNCHANGED <<uploaded_file, anomaly, model, future_months, anomalies,
                   monthly_avg, monthly_anomalies, fig, forecast_fig, summary, shown>>

\* Lines 51-54: fit the line.  LinearRegression.fit raises ValueError on a
\* table without rows, and nothing catches it.
Fit ==
    /\ pc = "fit"
    /\ IF df.rows = <<>>
       THEN /\ exc' = "ValueError"
            /\ pc' = "crashed"
            /\ model' = model
       ELSE /\ exc' = exc
            /\ pc' = "forecast"
            /\ model' = fit(Column(df, Month), Column(df, Sales))
    /\ UNCHANGED <<uploaded_file, df, anomaly, future_months, anomalies,
                   monthly_avg, monthly_anomalies, fig, forecast_fig, summary, shown>>

\* Lines 56-57: the six forecast points.
Forecast ==
    /\ pc = "forecast"
    /\ future_months' = forecast(model, Column(df, Month))
    /\ pc' = "detect"
    /\ UNCHANGED <<uploaded_file, df, anomaly, model, anomalies, monthly_avg,
                   monthly_anomalies, fig, forecast_fig, summary, shown, exc>>

\* Lines 60-62: the isolation forest sees the Sales column alone, so its
\* label is a function of the Sales value; which values it labels -1 is
\* left open here.
Detect ==
    /\ pc = "detect"
    /\ \E label \in [Range(Column(df, Sales)) -> {0 - 1, 1}] :
          LET labels == [r \in DOMAIN df.rows |-> label[Column(df, Sales)[r]]]
          IN  /\ anomaly' = labels
              /\ anomalies' = flagged(Records(df, labels))
    /\ pc' = "group"
    /\ UNCHANGED <<uploaded_file, df, model, future_months, monthly_avg,
                   monthly_anomalies, fig, forecast_fig, summary, shown, exc>>

\* Lines 65-66: the two grouped series.
Group ==
    /\ pc = "group"
    /\ monthly_avg' = groupby_mean(Records(df, anomaly))
    /\ monthly_anomalies' = groupby_mean(anomalies)
    /\ pc' = "plot"
    /\ UNCHANGED <<uploaded_file, df, anomaly, model, future_months, anomalies,
                   fig, forecast_fig, summary, shown, exc>>

\* Lines 69-88: the historical chart: the line of monthly_avg and one
\* marker per entry of monthly_anomalies.
PlotHistorical ==
    /\ pc = "plot"
    /\ fig' = [drawn |-> TRUE,
               line |-> [i \in DOMAIN monthly_avg |->
                            [x |-> monthly_avg[i].Month, y |-> monthly_avg[i].Sales]],
               markers |-> [i \in DOMAIN monthly_anomalies |->
                               [x |-> monthly_anomalies[i].Month,
                                y |-> monthly_anomalies[i].Sales]]]
    /\ shown' = shown \o <<Element("subheader", "Average Monthly Sales with Anomalies Highlighted"),
                           Element("chart", "fig")>>
    /\ pc' = "plot_forecast"
    /\ UNCHANGED <<uploaded_file, df, anomaly, model, future_months, anomalies,
                   monthly_avg, monthly_anomalies, forecast_fig, summary, exc>>

\* Lines 91-97: the forecast chart.
PlotForecast ==
    /\ pc = "plot_forecast"
    /\ forecast_fig' = [drawn |-> TRUE,
                        line |-> [i \in DOMAIN future_months |->
                                     [x |-> future_months[i].Month,
                                      y |-> future_months[i].Forecast]],
                        markers |-> <<>>]
    /\ shown' = shown \o <<Element("subheader", "Forecasted Sales for Next 6 Months"),
                           Element("chart", "forecast_fig")>>
    /\ pc' = "summary"
    /\ UNCHANGED <<uploaded_file, df, anomaly, model, future_months, anomalies,
                   monthly_avg, monthly_anomalies, fig, summary, exc>>

\* Lines 100-113: the summary.  df.loc[label, 'Month'] is one number when
\* the label names one row; with a repeated label it is a Series and
\* int() of it raises TypeError while the text is being formatted.
Summary ==
    /\ pc = "summary"
    /\ LET records == Records(df, anomaly)
           sales == Column(df, Sales)
           at == SelectSeq(records, LAMBDA r : r.idx = idxmax(records))
       IN  IF Len(at) # 1
           THEN /\ exc' = "TypeError"
                /\ pc' = "crashed"
                /\ summary' = summary
                /\ shown' = Append(shown, Element("subheader", "Auto-Generated Summary"))
           ELSE /\ exc' = exc
                /\ pc' = "done"
                /\ summary' = [total_sales |-> SeqSum(sales),
                               avg_sales |-> Mean(sales),
                               peak_month |-> at[1].Month,
                               shown_peak |-> int(at[1].Month),
                               anomaly_count |-> Len(anomalies)]
                /\ shown' = shown \o <<Element("subheader", "Auto-Generated Summary"),
                                       Element("markdown", "summary"),
                                       Element("info", "Upload your own CSV file")>>
    /\ UNCHANGED <<uploaded_file, df, anomaly, model, future_months, anomalies,
                   monthly_avg, monthly_anomalies, fig, forecast_fig>>

Next ==
    \/ Load
    \/ StripColumns
    \/ Validate
    \/ Clean
    \/ Fit
    \/ Forecast
    \/ Detect
    \/ Group
    \/ PlotHistorical
    \/ PlotForecast
    \/ Summary

Spec == Init /\ [][Next]_vars

\* ------------------------------------------------------- state predicates

LoadError == Element("error", "Error reading the CSV file")
SchemaError == Element("error", "CSV must have 'Month' and 'Sales' columns (case-sensitive)")

IsShown(e) == \E i \in DOMAIN shown : shown[i] = e
ErrorsShown == SelectSeq(shown, LAMBDA e : e.kind = "error")

LoadFailed == pc = "stopped" /\ IsShown(LoadError)
SchemaFailed == pc = "stopped" /\ IsShown(SchemaError)

\* The script has ended: normally, by st.stop(), or by an exception.
Terminated == pc \in {"done", "stopped", "crashed"}

\* The schema check has run and let the table through.
PastValidate == pc \notin {"load", "strip", "validate", "stopped"}
\* The Cleaner has run.
PastClean == PastValidate /\ pc # "clean"
\* The Cleaner has run and returned.
CleanedOK == PastClean /\ df.columns = <<Month, Sales>>

Success ==
    /\ pc = "done"
    /\ IsShown(Element("chart", "fig"))
    /\ IsShown(Element("chart", "forecast_fig"))
    /\ IsShown(Element("markdown", "summary"))
Failure == pc = "stopped" /\ ErrorsShown # <<>>

\* The table read_csv_auto returns for the uploaded bytes, before any
\* column name is stripped.
RawTable == read_csv_auto(Upload(uploaded_file.bytes)).table

\* name is target with whitespace (and nothing else) around it.
Surrounds(name, target) ==
    \E lo \in 1..(Len(name) + 1) :
        /\ lo + Len(target) - 1 <= Len(name)
        /\ SubSeq(name, lo, lo + Len(target) - 1) = target
        /\ \A i \in DOMAIN name :
               (i < lo \/ i > lo + Len(target) - 1) => IsSpace(name[i])

Utf8Valid(bytes) == utf8_from(bytes, 1, <<>>).ok

ScenarioFile == FileBytes(PlainHeader, ScenarioRows)

\* ----------------------------------------------------------------- claims

\* The schema check has run (the load succeeded and the names were stripped).
ValidateRan == PastValidate \/ SchemaFailed

\* C1: the schema check sees the stripped column names and passes exactly
\* when they include both 'Month' and 'Sales' in that case: the header
\* 'month,sales' halts with the schema error, 'Month,Sales' and
\* ' Month ,Sales ' pass, and a header missing either name halts with the
\* schema error.
C1_SchemaCheckOnStrippedNames ==
    ValidateRan =>
        LET raw == RawTable.columns
            both == /\ \E i \in DOMAIN raw : Surrounds(raw[i], Month)
                    /\ \E i \in DOMAIN raw : Surrounds(raw[i], Sales)
            qty == <<81, 116, 121>>
        IN  /\ PastValidate <=> both
            /\ SchemaFailed <=> ~both
            /\ raw = << <<109, 111, 110, 116, 104>>, <<115, 97, 108, 101, 115>> >>
                   => SchemaFailed
            /\ raw = <<Month, Sales>> => PastValidate
            /\ raw = << <<32>> \o Month \o <<32>>, Sales \o <<32>> >> => PastValidate
            /\ raw = <<Month, qty>> => SchemaFailed
            /\ raw = <<qty, Sales>> => SchemaFailed

\* A header with whitespace around both names has passed the schema check.
C1_Witness ==
    /\ pc = "clean"
    /\ RawTable.columns = << <<32>> \o Month \o <<32>>, Sales \o <<32>> >>

\* C2: without an upload the run loads a default dataset and goes on to the
\* success state; it never ends in the load-error state.
C2_DefaultDatasetLoads ==
    ~uploaded_file.present =>
        /\ ~LoadFailed
        /\ Terminated => Success

\* C3: for an upload that is not valid UTF-8 the Latin-1 retry reads the
\* whole stream from its first byte: the load does not fail and the table
\* is the one the same bytes give when read as Latin-1.
C3_RetryReadsWholeStream ==
    (uploaded_file.present /\ ~Utf8Valid(uploaded_file.bytes) /\ pc # "load") =>
        /\ ~LoadFailed
        /\ pc = "strip" =>
               df = parse_csv(latin1_decode(uploaded_file.bytes).text)

\* The rows the Cleaner is to keep, from the raw table: those whose Month
\* and Sales cells both are numbers, as numbers, in input order, with the
\* labels they had.
ExpectedClean ==
    LET m == CHOOSE i \in DOMAIN RawTable.columns : Surrounds(RawTable.columns[i], Month)
        sl == CHOOSE i \in DOMAIN RawTable.columns : Surrounds(RawTable.columns[i], Sales)
        num(cell) == IF cell.k = "str" THEN parse_number(cell.s) ELSE cell
        both == [r \in DOMAIN RawTable.rows |->
                    [idx |-> RawTable.rows[r].idx,
                     cells |-> <<num(RawTable.rows[r].cells[m]),
                                 num(RawTable.rows[r].cells[sl])>>]]
    IN  SelectSeq(both, LAMBDA row : row.cells[1].k = "num" /\ row.cells[2].k = "num")

\* C4: for every table that passes the schema check the Cleaner yields
\* exactly the columns Month and Sales and exactly the input rows whose
\* Month and Sales both convert to a number, in input order.
C4_CleanerKeepsNumericRows ==
    PastClean =>
        /\ df.columns = <<Month, Sales>>
        /\ df.rows = ExpectedClean

\* The largest whole number of months not above v tenths.
Floor(v) == v \div 10

\* C5: the forecast has six points, for the six whole months that follow
\* the largest observed Month, ascending, also when that Month is
\* fractional or negative.
C5_SixMonthsAfterMax ==
    (CleanedOK /\ pc \notin {"fit", "forecast", "crashed"}) =>
        /\ Len(future_months) = 6
        /\ \A i \in 1..6 :
               future_months[i].Month = 10 * (Floor(Max(Column(df, Month))) + i)

\* C6: when cleaning leaves no row, the run ends with an error message
\* shown and processing halted, not with an unhandled exception.
C6_EmptyDatasetFailsCleanly ==
    (CleanedOK /\ df.rows = <<>> /\ pc # "fit") =>
        /\ exc = "none"
        /\ Failure

\* C7: every run ends in exactly one of success and failure; charts and
\* summary are shown only after a successful load and schema check; once an
\* error message is shown nothing more runs and no second error is shown.
C7_OneTerminalState ==
    /\ Terminated => (Success /\ ~Failure) \/ (Failure /\ ~Success)
    /\ (\E i \in DOMAIN shown : shown[i].kind \in {"chart", "markdown"})
           => PastValidate
    /\ Len(ErrorsShown) <= 1
    /\ ErrorsShown # <<>> => (pc = "stopped" /\ ~ENABLED Next)

\* C8: the Cleaner applied to its own output returns that output: same
\* rows, same values, same order.
C8_CleanerIdempotent ==
    CleanedOK => Cleaner(df) = [exc |-> "none", df |-> df]

\* The Cleaner has dropped a row and kept another.
C8_Witness ==
    /\ pc = "fit"
    /\ Len(df.rows) >= 1
    /\ Len(df.rows) < Len(RawTable.rows)

AnomalousMonths ==
    {Column(df, Month)[r] : r \in {q \in DOMAIN anomaly : anomaly[q] = 0 - 1}}

\* The Sales of the records of Month m, all of them or the anomalous ones.
SalesOf(m, onlyAnomalous) ==
    LET at == SelectSeq([r \in DOMAIN df.rows |-> r],
                        LAMBDA r : /\ Column(df, Month)[r] = m
                                   /\ onlyAnomalous => anomaly[r] = 0 - 1)
    IN  [k \in DOMAIN at |-> Column(df, Sales)[at[k]]]

\* One marker for each Month with an anomalous record, none elsewhere.
OneMarkerPerAnomalousMonth ==
    /\ {fig.markers[i].x : i \in DOMAIN fig.markers} = AnomalousMonths
    /\ \A i, j \in DOMAIN fig.markers :
           fig.markers[i].x = fig.markers[j].x => i = j

\* C10 as stated: one marker per Month with an anomalous record and none
\* elsewhere, each at the averaged line's value for its Month.
C10_MarkersOnAveragedLine ==
    fig.drawn =>
        /\ OneMarkerPerAnomalousMonth
        /\ \A i \in DOMAIN fig.markers :
               \E j \in DOMAIN fig.line :
                   /\ fig.line[j].x = fig.markers[i].x
                   /\ fig.line[j].y = fig.markers[i].y

\* C10 as amended: one marker per Month with an anomalous record and none
\* elsewhere, each at the mean Sales of the anomalous records of its Month,
\* which is the averaged line's value there when every record of that Month
\* is anomalous; the line itself is the mean Sales of all records per Month.
C10_MarkersAtAnomalousMean ==
    fig.drawn =>
        /\ OneMarkerPerAnomalousMonth
        /\ \A i \in DOMAIN fig.markers :
               LET m == fig.markers[i].x
                   a == SalesOf(m, TRUE)
                   all == SalesOf(m, FALSE)
               IN  /\ fig.markers[i].y.num * Len(a) = SeqSum(a) * fig.markers[i].y.den
                   /\ Len(a) = Len(all) =>
                          \E j \in DOMAIN fig.line :
                              /\ fig.line[j].x = m
                              /\ fig.line[j].y = fig.markers[i].y
        /\ \A j \in DOMAIN fig.line :
               LET all == SalesOf(fig.line[j].x, FALSE)
               IN  fig.line[j].y.num * Len(all) = SeqSum(all) * fig.line[j].y.den

\* A chart whose marker sits off the line: its Month holds a normal and an
\* anomalous record.
C10_Witness ==
    /\ fig.drawn
    /\ \E i \in DOMAIN fig.markers :
           /\ Len(SalesOf(fig.markers[i].x, TRUE)) < Len(SalesOf(fig.markers[i].x, FALSE))
           /\ \E j \in DOMAIN fig.line :
                  /\ fig.line[j].x = fig.markers[i].x
                  /\ fig.line[j].y # fig.markers[i].y

====
